---- MODULE Spec2Model ----
(***************************************************************************)
(* Model of the hurricane debris detection pipeline.                       *)
(*                                                                         *)
(*   - src/app.py: the Streamlit dashboard.  One browser session is one    *)
(*     process; every click re-runs the script.  The START button handler  *)
(*     (lines 514-640) loads the model, expands the category toggles into  *)
(*     the prompt list, runs one predict per prompt, renders the final     *)
(*     annotation and publishes the results into st.session_state.         *)
(*   - src/debris_detector.py: DebrisDetector.detect_debris_with_text.     *)
(*                                                                         *)
(* The segmentation capability (samgeo's LangSAM) is an external library:  *)
(* its outcomes (raise, or succeed with n regions) are chosen by the       *)
(* environment.  Thresholds are kept in hundredths (0.20 is 20).           *)
(***************************************************************************)
EXTENDS Integers, Sequences, FiniteSets, TLC

\* ------------------------------------------------------------------ bounds

\* Largest number of regions one predict call returns in the model.
MaxRegions == 1

\* Number of START clicks explored in one browser session (SessionSpec).
MaxRuns == 2

\* Largest number of regions one predict call returns in CountSpec.
MaxCount == 4

\* ------------------------------------------------------- program constants

\* st.slider("Detection Sensitivity", min_value=0.10, max_value=0.40,
\* value=0.20, step=0.02), in hundredths.
SliderMin == 10
SliderMax == 40
SliderDefault == 20
SliderStep == 2

\* Every value the slider can take.
SliderValues == { SliderMin + SliderStep * k : k \in 0..((SliderMax - SliderMin) \div SliderStep) }

\* The slider positions explored: the default and the upper end.
Sensitivities == { SliderDefault, SliderMax }

\* ------------------------------------------------------------ Python values

\* None and Some(x) for an attribute that is None or holds a value.
None == << >>
Some(x) == << x >>
IsNone(o) == o = << >>
Get(o) == o[1]

\* A Python dict: insertion-ordered sequence of [k, v]; the keys are unique.
EmptyDict == << >>
DictKeys(d) == { d[j].k : j \in 1..Len(d) }
DictHas(d, key) == key \in DictKeys(d)
DictGet(d, key) == (CHOOSE j \in 1..Len(d) : d[j].k = key)

\* d[key] = val: a new key is appended, an existing key keeps its place and
\* has its value replaced.
DictSet(d, key, val) ==
    IF DictHas(d, key)
    THEN [ j \in 1..Len(d) |-> IF d[j].k = key THEN [k |-> key, v |-> val] ELSE d[j] ]
    ELSE Append(d, [k |-> key, v |-> val])

\* d[key]
DictAt(d, key) == d[DictGet(d, key)].v

\* sum(d.values())
RECURSIVE SumValues(_)
SumValues(d) == IF d = << >> THEN 0 ELSE d[1].v + SumValues(Tail(d))

\* ------------------------------------------------------------ prompt catalog

\* The four sidebar checkboxes.
ToggleSets == [ detect_debris : BOOLEAN, detect_rubble : BOOLEAN,
                detect_tarps : BOOLEAN, detect_vehicles : BOOLEAN ]

Pair(p, c) == [ prompt |-> p, display_name |-> c ]

\* Mutant of PromptsToRun: the second prompt of a checkbox is registered
\* under the display name of the first.
PromptsToRun_SharedName(t) ==
    (IF t.detect_debris
       THEN << Pair("pile of debris", "Debris Piles"), Pair("trash pile", "Debris Piles") >>
       ELSE << >>)
    \o (IF t.detect_rubble
       THEN << Pair("rubble", "Rubble"), Pair("construction debris", "Rubble") >>
       ELSE << >>)
    \o (IF t.detect_tarps THEN << Pair("blue tarp", "Blue Tarps") >> ELSE << >>)
    \o (IF t.detect_vehicles THEN << Pair("damaged vehicle", "Damaged Vehicles") >> ELSE << >>)

\* Mutant of PromptsToRun: the blue tarp prompt is registered first.
PromptsToRun_TarpsFirst(t) ==
    (IF t.detect_tarps THEN << Pair("blue tarp", "Blue Tarps") >> ELSE << >>)
    \o (IF t.detect_debris
       THEN << Pair("pile of debris", "Debris Piles"), Pair("trash pile", "Trash Piles") >>
       ELSE << >>)
    \o (IF t.detect_rubble
       THEN << Pair("rubble", "Rubble"), Pair("construction debris", "Construction Debris") >>
       ELSE << >>)
    \o (IF t.detect_vehicles THEN << Pair("damaged vehicle", "Damaged Vehicles") >> ELSE << >>)

\* prompts_to_run: the (prompt, display_name) pairs of the checked boxes.
PromptsToRun(t) ==
    (IF t.detect_debris
       THEN << Pair("pile of debris", "Debris Piles"), Pair("trash pile", "Trash Piles") >>
       ELSE << >>)
    \o (IF t.detect_rubble
       THEN << Pair("rubble", "Rubble"), Pair("construction debris", "Construction Debris") >>
       ELSE << >>)
    \o (IF t.detect_tarps THEN << Pair("blue tarp", "Blue Tarps") >> ELSE << >>)
    \o (IF t.detect_vehicles THEN << Pair("damaged vehicle", "Damaged Vehicles") >> ELSE << >>)

AllOn == [ detect_debris |-> TRUE, detect_rubble |-> TRUE,
           detect_tarps |-> TRUE, detect_vehicles |-> TRUE ]

Categories == { PromptsToRun(AllOn)[j].display_name : j \in 1..Len(PromptsToRun(AllOn)) }

\* The regions a predict call returning n boxes for prompt p leaves in the model.
Regions(p, n) == { << p, k >> : k \in 1..n }

\* ---------------------------------------------------------------- app state

VARIABLES
    pc,                  \* where the script is: "idle", "download", "load", "detect"
    runs,                \* START clicks so far in this browser session
    uploaded_image,      \* st.session_state.uploaded_image: "None", "upload" or "demo"
    demo_mode,           \* st.session_state.demo_mode (absent reads as FALSE)
    detection_complete,  \* st.session_state.detection_complete
    ss_results,          \* st.session_state.results: None or Some(dict)
    ss_result_images,    \* st.session_state.result_images: None (key absent) or Some(dict)
    final_result,        \* 'final_result' in st.session_state
    final_file,          \* ./output/final_detection.png: None or Some([run, regions])
    toggles,             \* the four checkboxes as read by the running script
    detection_sensitivity, \* the slider as read by the running script
    sam,                 \* the handler's LangSAM object: None or Some([boxes])
    results,             \* the handler's local results dict
    result_images,       \* the handler's local result_images dict
    prompts_to_run,      \* the handler's local prompt list
    i,                   \* prompts of prompts_to_run already processed
    progress,            \* every value handed to progress_bar.progress in this run
    calls,               \* every call made on the capability in this run, in order
    loads,               \* LangSAM objects constructed in this process
    total_detections,    \* the total shown by the results section: None or Some(n)
    \* DebrisDetector (src/debris_detector.py)
    lang_sam,            \* self.lang_sam: None or Some(handle number)
    det_pc,              \* "idle", "init", "loop" inside detect_debris_with_text
    det_result,          \* how the last call ended: "none", "returned", "raised"
    det_calls,           \* detect_debris_with_text calls made on the detector
    text_prompts,        \* the call's prompt list
    box_threshold,       \* the call's box_threshold
    text_threshold,      \* the call's text_threshold
    all_masks,           \* the call's all_masks list (one mask path per prompt)
    k,                   \* prompts of text_prompts already processed
    vector_file,         \* what the call wrote to output_path: None or Some([masks])
    dl_pc,               \* "idle", "first", "retry" inside download_noaa_imagery
    dl_calls,            \* download_noaa_imagery calls made on the detector
    dl_source,           \* the call's source argument
    dl_output,           \* the call's output_path after defaulting
    dl_attempts,         \* the call's tms_to_geotiff calls, in order
    dl_result,           \* how the last call ended: "none", "returned", "raised"
    dl_return,           \* the value the last call returned: None or Some(path)
    dl_files             \* the rasters tms_to_geotiff has written: { [path, url] }

app == << pc, runs, uploaded_image, demo_mode, detection_complete, ss_results,
          ss_result_images, final_result, final_file, toggles,
          detection_sensitivity, sam, results, result_images, prompts_to_run, i,
          progress, total_detections >>

dl == << dl_pc, dl_calls, dl_source, dl_output, dl_attempts, dl_result, dl_return,
         dl_files >>

det == << lang_sam, det_pc, det_result, det_calls, text_prompts, box_threshold,
          text_threshold, all_masks, k, vector_file, dl >>

vars == << app, calls, loads, det >>

session == << uploaded_image, demo_mode, detection_complete, ss_results,
              ss_result_images, final_result >>

locals == << sam, results, result_images, prompts_to_run, i >>

AllOff == [ detect_debris |-> FALSE, detect_rubble |-> FALSE,
            detect_tarps |-> FALSE, detect_vehicles |-> FALSE ]

\* The sidebar defaults: debris, rubble and tarps checked, vehicles not.
DefaultToggles == [ detect_debris |-> TRUE, detect_rubble |-> TRUE,
                    detect_tarps |-> TRUE, detect_vehicles |-> FALSE ]

\* A fresh session: the three keys the script initialises, nothing else set.
Init ==
    /\ pc = "idle"
    /\ runs = 0
    /\ uploaded_image = "None"
    /\ demo_mode = FALSE
    /\ detection_complete = FALSE
    /\ ss_results = None
    /\ ss_result_images = None
    /\ final_result = FALSE
    /\ final_file = None
    /\ toggles = DefaultToggles
    /\ detection_sensitivity = SliderDefault
    /\ sam = None
    /\ results = EmptyDict
    /\ result_images = EmptyDict
    /\ prompts_to_run = << >>
    /\ i = 0
    /\ progress = << >>
    /\ calls = << >>
    /\ loads = 0
    /\ total_detections = None
    /\ lang_sam = None
    /\ det_pc = "idle"
    /\ det_result = "none"
    /\ det_calls = 0
    /\ text_prompts = << >>
    /\ box_threshold = 0
    /\ text_threshold = 0
    /\ all_masks = << >>
    /\ k = 0
    /\ vector_file = None
    /\ dl_pc = "idle"
    /\ dl_calls = 0
    /\ dl_source = ""
    /\ dl_output = << >>
    /\ dl_attempts = << >>
    /\ dl_result = "none"
    /\ dl_return = None
    /\ dl_files = {}

\* run_disabled: no image and not demo mode.
run_disabled == uploaded_image = "None" /\ ~demo_mode

\* Mutant of TotalDetections: only the three categories shown as metric
\* cards (results_list[:3]) are summed.
TotalDetections_FirstThree(d) == SumValues(SubSeq(d, 1, IF Len(d) < 3 THEN Len(d) ELSE 3))

\* The results section of the page: shown only when detection_complete and
\* results is a non-empty dict; total_detections = sum(results.values()).
TotalDetections(d) == SumValues(d)

ResultsSection(dc, res) ==
    IF dc /\ ~IsNone(res) /\ Get(res) # EmptyDict
    THEN Some(TotalDetections(Get(res)))
    ELSE None

\* The user selects a file: the script saves it and sets uploaded_image.
Upload ==
    /\ pc = "idle"
    /\ uploaded_image' = "upload"
    /\ total_detections' = ResultsSection(detection_complete, ss_results)
    /\ UNCHANGED det
    /\ UNCHANGED << pc, runs, demo_mode, detection_complete, ss_results,
                    ss_result_images, final_result, final_file, toggles,
                    detection_sensitivity, locals, progress, calls, loads >>

\* "Load Demo Area": offered only while no file is selected in the uploader.
LoadDemo ==
    /\ pc = "idle"
    /\ uploaded_image # "upload"
    /\ demo_mode' = TRUE
    /\ total_detections' = ResultsSection(detection_complete, ss_results)
    /\ UNCHANGED det
    /\ UNCHANGED << pc, runs, uploaded_image, detection_complete, ss_results,
                    ss_result_images, final_result, final_file, toggles,
                    detection_sensitivity, locals, progress, calls, loads >>

\* START DEBRIS DETECTION with the sidebar at toggles t and sensitivity s.
ClickStart(t, s, limit) ==
    /\ pc = "idle"
    /\ ~run_disabled
    /\ runs < limit
    /\ runs' = runs + 1
    /\ toggles' = t
    /\ detection_sensitivity' = s
    /\ progress' = << 0 >>
    /\ calls' = << >>
    /\ sam' = None
    /\ results' = EmptyDict
    /\ result_images' = EmptyDict
    /\ prompts_to_run' = << >>
    /\ i' = 0
    /\ total_detections' = None
    /\ pc' = IF demo_mode /\ uploaded_image = "None" THEN "download" ELSE "load"
    /\ UNCHANGED det
    /\ UNCHANGED << session, final_file, loads >>

\* Demo mode: tms_to_geotiff succeeds and the demo raster becomes the image.
DemoDownloadOk ==
    /\ pc = "download"
    /\ uploaded_image' = "demo"
    /\ progress' = progress \o << 10, 25 >>
    /\ pc' = "load"
    /\ UNCHANGED det
    /\ UNCHANGED << runs, demo_mode, detection_complete, ss_results,
                    ss_result_images, final_result, final_file, toggles,
                    detection_sensitivity, locals, calls, loads, total_detections >>

\* Mutant of DemoDownloadFail: the except branch shows the error but does
\* not stop the script, which goes on to load the model.
DemoDownloadFail_NoStop ==
    /\ pc = "download"
    /\ progress' = progress \o << 10 >>
    /\ pc' = "load"
    /\ UNCHANGED det
    /\ UNCHANGED << runs, session, final_file, toggles, detection_sensitivity,
                    locals, calls, loads, total_detections >>

\* Demo mode: the download raises; st.error and st.stop().
DemoDownloadFail ==
    /\ pc = "download"
    /\ progress' = progress \o << 10 >>
    /\ pc' = "idle"
    /\ UNCHANGED det
    /\ UNCHANGED << runs, session, final_file, toggles, detection_sensitivity,
                    locals, calls, loads, total_detections >>

\* --------------------------------------------------------- capability calls

\* One call on the LangSAM object as the capability sees it.
PredictCall(img, prompt, box, text, raised, n) ==
    [ op |-> "predict", image |-> img, text_prompt |-> prompt, box_threshold |-> box,
      text_threshold |-> text, output |-> "", raised |-> raised, n |-> n ]

ShowAnnsCall(out, raised) ==
    [ op |-> "show_anns", image |-> "", text_prompt |-> "", box_threshold |-> 0,
      text_threshold |-> 0, output |-> out, raised |-> raised, n |-> 0 ]

\* Mutant of AppPredict: text_threshold is left at the value the scripts use
\* (0.24) instead of the slider value.
AppPredict_FixedTextThreshold(img, prompt, sens, raised, n) ==
    PredictCall(img, prompt, sens, 24, raised, n)

\* Mutant of AppPredict: the slider is read as a sensitivity and turned
\* round before it is passed on (a high sensitivity gives low thresholds).
AppPredict_InvertedSensitivity(img, prompt, sens, raised, n) ==
    PredictCall(img, prompt, SliderMin + SliderMax - sens, SliderMin + SliderMax - sens,
                raised, n)

\* sam.predict(image=st.session_state.uploaded_image, text_prompt=prompt,
\*             box_threshold=detection_sensitivity, text_threshold=detection_sensitivity)
AppPredict(img, prompt, sens, raised, n) ==
    PredictCall(img, prompt, sens, sens, raised, n)

\* A LangSAM object right after construction: no prediction held.
FreshSam == [ boxes |-> None ]

\* len(sam.boxes) if hasattr(sam, 'boxes') and sam.boxes is not None else 0
Count(s) == IF IsNone(s.boxes) THEN 0 ELSE Cardinality(Get(s.boxes))

\* What show_anns draws: the boxes the object holds now.
Held(s) == IF IsNone(s.boxes) THEN {} ELSE Get(s.boxes)

\* Mutant of RecordCount: the count is added to the one the session state
\* holds for the category from an earlier run.
RecordCount_AddsToSession(d, display_name, count) ==
    DictSet(d, display_name,
            count + (IF ~IsNone(ss_results) /\ DictHas(Get(ss_results), display_name)
                     THEN DictAt(Get(ss_results), display_name)
                     ELSE 0))

\* results[display_name] = count
RecordCount(d, display_name, count) == DictSet(d, display_name, count)

\* Mutant of RecordFailure: the except branch records nothing.
RecordFailure_Skip(d, display_name) == d

\* except Exception: results[display_name] = 0
RecordFailure(d, display_name) == DictSet(d, display_name, 0)

\* Mutant of ProgressValue: the iteration index is used as it is, without
\* the + 1.
ProgressValue_ZeroBased(idx, total_prompts) == 50 + ((idx * 45) \div total_prompts)

\* progress_value = 50 + int((i + 1) / total_prompts * 45), i counted from 0.
\* The float expression and the integer floor agree for every list the
\* checkboxes can produce (1 to 6 prompts).
ProgressValue(idx, total_prompts) == 50 + (((idx + 1) * 45) \div total_prompts)

\* Mutant of PromptAt: the list is walked from its end.
PromptAt_FromEnd(list, idx) == list[Len(list) - idx]

\* for i, (prompt, display_name) in enumerate(prompts_to_run): the pair of
\* iteration idx, counted from 0.
PromptAt(list, idx) == list[idx + 1]

\* ------------------------------------------------------ the START handler

\* Step 1: LangSAM() is constructed; then the locals of step 2 are set up.
LoadModelOk ==
    /\ pc = "load"
    /\ loads' = loads + 1
    /\ sam' = Some(FreshSam)
    /\ progress' = progress \o << 30, 50 >>
    /\ results' = EmptyDict
    /\ result_images' = EmptyDict
    /\ prompts_to_run' = PromptsToRun(toggles)
    /\ i' = 0
    /\ pc' = "detect"
    /\ UNCHANGED det
    /\ UNCHANGED << runs, session, final_file, toggles, detection_sensitivity,
                    calls, total_detections >>

\* Mutant of LoadModelFail: the except branch reports the error but does not
\* stop the script, which goes on into step 2 without a model.
LoadModelFail_NoStop ==
    /\ pc = "load"
    /\ progress' = progress \o << 30 >>
    /\ results' = EmptyDict
    /\ result_images' = EmptyDict
    /\ prompts_to_run' = PromptsToRun(toggles)
    /\ i' = 0
    /\ pc' = "detect"
    /\ UNCHANGED det
    /\ UNCHANGED << runs, session, final_file, toggles, detection_sensitivity,
                    sam, calls, loads, total_detections >>

\* Step 1: LangSAM() raises; st.error and st.stop().
LoadModelFail ==
    /\ pc = "load"
    /\ progress' = progress \o << 30 >>
    /\ pc' = "idle"
    /\ UNCHANGED det
    /\ UNCHANGED << runs, session, final_file, toggles, detection_sensitivity,
                    locals, calls, loads, total_detections >>

\* Mutant of PredictOk: the per-prompt show_anns has no try/except of its
\* own, so a rendering failure reaches the outer except and records 0.
PredictOk_RenderFailureZeroes(n, rendered) ==
    /\ pc = "detect"
    /\ i < Len(prompts_to_run)
    /\ LET prompt == PromptAt(prompts_to_run, i).prompt
           display_name == PromptAt(prompts_to_run, i).display_name
           after == [ boxes |-> Some(Regions(prompt, n)) ]
           count == Count(after)
       IN  /\ sam' = Some(after)
           /\ IF count > 0
              THEN /\ calls' = calls \o
                         << AppPredict(uploaded_image, prompt, detection_sensitivity, FALSE, n),
                            ShowAnnsCall(prompt, ~rendered) >>
                   /\ results' = IF rendered
                                 THEN RecordCount(results, display_name, count)
                                 ELSE RecordFailure(results, display_name)
                   /\ result_images' = IF rendered
                                       THEN DictSet(result_images, display_name, prompt)
                                       ELSE result_images
              ELSE /\ calls' = Append(calls,
                            AppPredict(uploaded_image, prompt, detection_sensitivity, FALSE, n))
                   /\ results' = RecordCount(results, display_name, count)
                   /\ result_images' = result_images
    /\ progress' = Append(progress, ProgressValue(i, Len(prompts_to_run)))
    /\ i' = i + 1
    /\ UNCHANGED det
    /\ UNCHANGED << pc, runs, session, final_file, toggles, detection_sensitivity,
                    prompts_to_run, loads, total_detections >>

\* One loop iteration whose predict returns n boxes; when n > 0 the
\* per-prompt show_anns is attempted and either writes the image or raises.
PredictOk(n, rendered) ==
    /\ pc = "detect"
    /\ i < Len(prompts_to_run)
    /\ LET prompt == PromptAt(prompts_to_run, i).prompt
           display_name == PromptAt(prompts_to_run, i).display_name
           after == [ boxes |-> Some(Regions(prompt, n)) ]
           count == Count(after)
       IN  /\ sam' = Some(after)
           /\ results' = RecordCount(results, display_name, count)
           /\ IF count > 0
              THEN /\ calls' = calls \o
                         << AppPredict(uploaded_image, prompt, detection_sensitivity, FALSE, n),
                            ShowAnnsCall(prompt, ~rendered) >>
                   /\ result_images' = IF rendered
                                       THEN DictSet(result_images, display_name, prompt)
                                       ELSE result_images
              ELSE /\ calls' = Append(calls,
                            AppPredict(uploaded_image, prompt, detection_sensitivity, FALSE, n))
                   /\ result_images' = result_images
    /\ progress' = Append(progress, ProgressValue(i, Len(prompts_to_run)))
    /\ i' = i + 1
    /\ UNCHANGED det
    /\ UNCHANGED << pc, runs, session, final_file, toggles, detection_sensitivity,
                    prompts_to_run, loads, total_detections >>

\* Mutant of PredictFail: the except branch also stores the results gathered
\* so far in the session state.
PredictFail_PublishesPartial ==
    /\ pc = "detect"
    /\ i < Len(prompts_to_run)
    /\ LET prompt == PromptAt(prompts_to_run, i).prompt
           display_name == PromptAt(prompts_to_run, i).display_name
       IN  /\ calls' = Append(calls,
                    AppPredict(uploaded_image, prompt, detection_sensitivity, TRUE, 0))
           /\ results' = RecordFailure(results, display_name)
    /\ ss_results' = Some(results')
    /\ progress' = Append(progress, ProgressValue(i, Len(prompts_to_run)))
    /\ i' = i + 1
    /\ UNCHANGED det
    /\ UNCHANGED << pc, runs, uploaded_image, demo_mode, detection_complete,
                    ss_result_images, final_result, final_file, toggles,
                    detection_sensitivity, sam, result_images, prompts_to_run, loads,
                    total_detections >>

\* One loop iteration whose predict raises: the category is recorded with 0.
PredictFail ==
    /\ pc = "detect"
    /\ i < Len(prompts_to_run)
    /\ LET prompt == PromptAt(prompts_to_run, i).prompt
           display_name == PromptAt(prompts_to_run, i).display_name
       IN  /\ calls' = Append(calls,
                    AppPredict(uploaded_image, prompt, detection_sensitivity, TRUE, 0))
           /\ results' = RecordFailure(results, display_name)
    /\ progress' = Append(progress, ProgressValue(i, Len(prompts_to_run)))
    /\ i' = i + 1
    /\ UNCHANGED det
    /\ UNCHANGED << pc, runs, session, final_file, toggles, detection_sensitivity,
                    sam, result_images, prompts_to_run, loads, total_detections >>

\* TRUE when the last predict of the run raised.  sam then still names the
\* boxes of the last predict that returned, but a call that raised part-way
\* may have dropped them: the object holds either those boxes or none.
LastPredictRaised(log) ==
    LET idx == { j \in 1..Len(log) : log[j].op = "predict" }
    IN  idx # {} /\ log[CHOOSE j \in idx : \A m \in idx : m <= j].raised

\* What the final show_anns draws: the boxes the object holds at that point.
FinalRegions(s, log, kept) ==
    IF LastPredictRaised(log) /\ ~kept THEN {} ELSE Held(s)

\* Mutant of FinalAnnotate: a final show_anns that raises ends the script
\* (as a failed model load does) instead of being passed over.
FinalAnnotate_StopOnFailure(rendered, kept) ==
    /\ pc = "detect"
    /\ i = Len(prompts_to_run)
    /\ kept \/ (rendered /\ LastPredictRaised(calls))
    /\ calls' = Append(calls, ShowAnnsCall("final", ~rendered))
    /\ IF rendered
       THEN /\ final_file' = Some([ run |-> runs,
                                    regions |-> FinalRegions(Get(sam), calls, kept) ])
            /\ final_result' = TRUE
            /\ progress' = Append(progress, 100)
            /\ ss_results' = Some(results)
            /\ ss_result_images' = Some(result_images)
            /\ detection_complete' = TRUE
       ELSE UNCHANGED << final_file, final_result, progress, ss_results,
                         ss_result_images, detection_complete >>
    /\ total_detections' = ResultsSection(detection_complete', ss_results')
    /\ pc' = "idle"
    /\ UNCHANGED det
    /\ UNCHANGED << runs, uploaded_image, demo_mode, toggles, detection_sensitivity,
                    locals, loads >>

\* After the loop: the final show_anns ("All Detections"); then the results
\* are published, st.rerun() runs the script again and the results section
\* is drawn from the session state.
FinalAnnotate(rendered, kept) ==
    /\ pc = "detect"
    /\ i = Len(prompts_to_run)
    /\ kept \/ (rendered /\ LastPredictRaised(calls))
    /\ calls' = Append(calls, ShowAnnsCall("final", ~rendered))
    /\ IF rendered
       THEN /\ final_file' = Some([ run |-> runs,
                                    regions |-> FinalRegions(Get(sam), calls, kept) ])
            /\ final_result' = TRUE
       ELSE UNCHANGED << final_file, final_result >>
    /\ progress' = Append(progress, 100)
    /\ ss_results' = Some(results)
    /\ ss_result_images' = Some(result_images)
    /\ detection_complete' = TRUE
    /\ total_detections' = ResultsSection(detection_complete', ss_results')
    /\ pc' = "idle"
    /\ UNCHANGED det
    /\ UNCHANGED << runs, uploaded_image, demo_mode, toggles, detection_sensitivity,
                    locals, loads >>

\* --------------------------------------------------------- specifications

\* The START handler from the model load to the rerun, against a capability
\* that returns at most maxN regions per call.
Run(maxN) ==
    \/ LoadModelOk
    \/ LoadModelFail
    \/ \E n \in 0..maxN, rendered \in BOOLEAN : PredictOk(n, rendered)
    \/ PredictFail
    \/ \E rendered \in BOOLEAN, kept \in BOOLEAN : FinalAnnotate(rendered, kept)

\* One detection run on an uploaded image in a fresh session: any checkboxes,
\* any explored slider position, any outcome of every capability call.
Next ==
    \/ Upload
    \/ \E t \in ToggleSets, s \in Sensitivities : ClickStart(t, s, 1)
    \/ Run(MaxRegions)

Spec == Init /\ [][Next]_vars

\* The checkbox selections explored over several runs of one session: the
\* two one-prompt categories, in every combination.
SessionToggleSets == { t \in ToggleSets : ~t.detect_debris /\ ~t.detect_rubble }

\* One browser session with up to MaxRuns detection runs, on an uploaded
\* image or on the demo area.
SessionNext ==
    \/ Upload
    \/ LoadDemo
    \/ \E t \in SessionToggleSets, s \in Sensitivities : ClickStart(t, s, MaxRuns)
    \/ DemoDownloadOk
    \/ DemoDownloadFail
    \/ Run(MaxRegions)

SessionSpec == Init /\ [][SessionNext]_vars

\* The checkbox selections of CountSpec: the two categories with two prompts
\* each (debris piles, rubble), alone or together.
CountToggleSets ==
    { t \in ToggleSets : ~t.detect_tarps /\ ~t.detect_vehicles
                         /\ (t.detect_debris \/ t.detect_rubble) }

\* One detection run over the two-prompt categories with up to MaxCount
\* regions per prompt.
CountNext ==
    \/ Upload
    \/ \E t \in CountToggleSets : ClickStart(t, SliderDefault, 1)
    \/ Run(MaxCount)

CountSpec == Init /\ [][CountNext]_vars

\* One detection run on an uploaded image or on the demo area, with any
\* checkboxes: prompt lists of every length from 0 to 6.
ProgressNext ==
    \/ Upload
    \/ LoadDemo
    \/ \E t \in ToggleSets : ClickStart(t, SliderDefault, 1)
    \/ DemoDownloadOk
    \/ DemoDownloadFail
    \/ Run(MaxRegions)

ProgressSpec == Init /\ [][ProgressNext]_vars

\* ------------------------------------------------------- the CSV report

\* Largest number of regions one predict call returns in TierSpec.
MaxTierCount == 6

\* Mutant of Priority: a count of 5 is already High.
Priority_FiveIsHigh(v) == IF v >= 5 THEN "High" ELSE IF v > 2 THEN "Medium" ELSE "Low"

\* "High" if v > 5 else "Medium" if v > 2 else "Low"
Priority(v) == IF v > 5 THEN "High" ELSE IF v > 2 THEN "Medium" ELSE "Low"

\* The rows of the DataFrame behind "Download CSV Report": one per item of
\* st.session_state.results, in the dict's order.
ReportRows(res) ==
    [ j \in 1..Len(res) |->
        [ Category |-> res[j].k, Count |-> res[j].v, Priority |-> Priority(res[j].v) ] ]

\* The CSV report the page offers: built only inside the results section
\* (detection_complete and a non-empty results dict).  None when not offered.
CsvReport ==
    IF detection_complete /\ ~IsNone(ss_results) /\ Get(ss_results) # EmptyDict
    THEN Some(ReportRows(Get(ss_results)))
    ELSE None

\* One detection run over the one-prompt categories with up to MaxTierCount
\* regions per prompt, so that counts of every priority tier occur.
TierNext ==
    \/ Upload
    \/ \E t \in SessionToggleSets : ClickStart(t, SliderDefault, 1)
    \/ Run(MaxTierCount)

TierSpec == Init /\ [][TierNext]_vars

\* -------------------------------------------- a deterministic capability

\* A stub capability: for every prompt the confidences (in hundredths) of the
\* regions it can match on the session's image.  predict returns the regions
\* whose confidence reaches the threshold, so the match count is
\* non-increasing in the threshold.
StubConfidences(prompt) ==
    CASE prompt = "pile of debris"      -> { 25 }
      [] prompt = "trash pile"          -> { }
      [] prompt = "rubble"              -> { 21, 39 }
      [] prompt = "construction debris" -> { 22, 35, 40 }
      [] prompt = "blue tarp"           -> { 30, 35, 38 }
      [] prompt = "damaged vehicle"     -> { 12, 36 }

StubCount(prompt, threshold) ==
    Cardinality({ c \in StubConfidences(prompt) : c >= threshold })

\* The stub raises on this prompt, at every threshold.
StubRaises(prompt) == prompt = "rubble"

\* The number of regions the stub returns for a predict call it receives.
StubAnswer(call) == StubCount(call.text_prompt, call.box_threshold)

\* One loop iteration against the stub.
StubPredict(rendered) ==
    /\ pc = "detect"
    /\ i < Len(prompts_to_run)
    /\ LET prompt == PromptAt(prompts_to_run, i).prompt
           call == AppPredict(uploaded_image, prompt, detection_sensitivity, FALSE, 0)
       IN  IF StubRaises(prompt)
           THEN PredictFail
           ELSE PredictOk(StubAnswer(call), rendered)

\* START is clicked with the sidebar as the previous run of the session left
\* it (any checkboxes and explored slider position for the first run).
StartSameRequest(t, s) ==
    /\ runs = 0 \/ (t = toggles /\ s = detection_sensitivity)
    /\ ClickStart(t, s, MaxRuns)

\* Several runs of one session on an uploaded image against the stub, the
\* sidebar left untouched between the runs: every run is the same request.
\* The outcomes of show_anns stay open.
RerunNext ==
    \/ Upload
    \/ \E t \in ToggleSets, s \in Sensitivities : StartSameRequest(t, s)
    \/ LoadModelOk
    \/ LoadModelFail
    \/ \E rendered \in BOOLEAN : StubPredict(rendered)
    \/ \E rendered \in BOOLEAN, kept \in BOOLEAN : FinalAnnotate(rendered, kept)

RerunSpec == Init /\ [][RerunNext]_vars

\* The slider positions compared: 0.20 and the two positions next to 0.35,
\* which the slider (0.10 to 0.40 in steps of 0.02) cannot take itself.
ComparedSensitivities ==
    { SliderDefault, SliderDefault + 7 * SliderStep, SliderDefault + 8 * SliderStep }

\* START is clicked with the checkboxes as the previous run left them and
\* the slider where it was or further up.
StartHigherThreshold(t, s) ==
    /\ runs = 0 \/ (t = toggles /\ s >= detection_sensitivity)
    /\ ClickStart(t, s, MaxRuns)

\* Several runs of one session on an uploaded image against the stub, the
\* same checkboxes every time, the slider never moved down between runs.
ThresholdNext ==
    \/ Upload
    \/ \E t \in ToggleSets, s \in ComparedSensitivities : StartHigherThreshold(t, s)
    \/ LoadModelOk
    \/ LoadModelFail
    \/ \E rendered \in BOOLEAN : StubPredict(rendered)
    \/ \E rendered \in BOOLEAN, kept \in BOOLEAN : FinalAnnotate(rendered, kept)

ThresholdSpec == Init /\ [][ThresholdNext]_vars

\* ------------------------------------------- DebrisDetector (the library)

\* Number of detect_debris_with_text calls explored on one detector.
MaxDetCalls == 2

\* The default prompts of detect_debris_with_text (text_prompts=None).
DefaultTextPrompts ==
    << "debris pile", "construction debris", "storm debris", "waste pile",
       "rubble pile", "trash pile", "damaged materials", "hurricane debris" >>

\* The prompts main() passes.
MainTextPrompts ==
    << "debris pile", "storm debris", "construction debris", "rubble", "waste pile" >>

\* The text_prompts arguments explored: an empty list, one prompt, main()'s
\* list.
TextPromptArgs == { Some(<< >>), Some(<< "rubble" >>), Some(MainTextPrompts) }

\* box_threshold=0.24, text_threshold=0.24
DefaultThreshold == 24

\* The (box_threshold, text_threshold) arguments explored, in hundredths: the
\* defaults, a box threshold of 0, a text threshold above 1.
ThresholdArgs == { << DefaultThreshold, DefaultThreshold >>, << 0, DefaultThreshold >>,
                   << DefaultThreshold, 150 >> }

\* if text_prompts is None: text_prompts = [the defaults]
EffectivePrompts(arg) == IF IsNone(arg) THEN DefaultTextPrompts ELSE Get(arg)

\* self.lang_sam.predict(image=str(image_path), text_prompt=prompt,
\*                       box_threshold=box_threshold, text_threshold=text_threshold)
DetPredict(prompt, box, text, raised, n) ==
    PredictCall("image_path", prompt, box, text, raised, n)

SaveMasksCall(prompt, raised) ==
    [ op |-> "save_masks", image |-> "", text_prompt |-> "", box_threshold |-> 0,
      text_threshold |-> 0, output |-> prompt, raised |-> raised, n |-> 0 ]

RasterToVectorCall(mask, raised) ==
    [ op |-> "raster_to_vector", image |-> "", text_prompt |-> "", box_threshold |-> 0,
      text_threshold |-> 0, output |-> mask, raised |-> raised, n |-> 0 ]

\* detect_debris_with_text(image_path, text_prompts=arg, box_threshold=box,
\* text_threshold=text) is entered: lines 73-96 up to the loop, the model
\* being initialised first when self.lang_sam is None.
DetectDebrisWithText(arg, box, text) ==
    /\ det_pc = "idle"
    /\ det_calls < MaxDetCalls
    /\ det_calls' = det_calls + 1
    /\ det_result' = "none"
    /\ text_prompts' = EffectivePrompts(arg)
    /\ box_threshold' = box
    /\ text_threshold' = text
    /\ all_masks' = << >>
    /\ k' = 0
    /\ vector_file' = None
    /\ calls' = << >>
    /\ det_pc' = IF IsNone(lang_sam) THEN "init" ELSE "loop"
    /\ UNCHANGED << app, dl, loads, lang_sam >>

\* initialize_model(use_text_prompts=True): self.lang_sam = LangSAM()
InitializeModelOk ==
    /\ det_pc = "init"
    /\ loads' = loads + 1
    /\ lang_sam' = Some(loads + 1)
    /\ det_pc' = "loop"
    /\ UNCHANGED << app, dl, calls, det_result, det_calls, text_prompts, box_threshold,
                    text_threshold, all_masks, k, vector_file >>

\* LangSAM() raises: nothing catches it, the call ends with the exception.
InitializeModelFail ==
    /\ det_pc = "init"
    /\ det_result' = "raised"
    /\ det_pc' = "idle"
    /\ UNCHANGED << app, dl, calls, loads, lang_sam, det_calls, text_prompts, box_threshold,
                    text_threshold, all_masks, k, vector_file >>

\* One loop iteration whose predict returns with n regions; save_masks then
\* either writes the prompt's mask (all background when n is 0), which is
\* appended to all_masks, or raises.
DetPredictOk(n, saved) ==
    /\ det_pc = "loop"
    /\ k < Len(text_prompts)
    /\ LET prompt == text_prompts[k + 1]
       IN  /\ calls' = calls \o << DetPredict(prompt, box_threshold, text_threshold, FALSE, n),
                                   SaveMasksCall(prompt, ~saved) >>
           /\ all_masks' = IF saved THEN Append(all_masks, prompt) ELSE all_masks
    /\ k' = k + 1
    /\ UNCHANGED << app, dl, loads, lang_sam, det_pc, det_result, det_calls, text_prompts,
                    box_threshold, text_threshold, vector_file >>

\* Mutant of DetPredictFail: the first prompt that raises ends the loop.
DetPredictFail_Break ==
    /\ det_pc = "loop"
    /\ k < Len(text_prompts)
    /\ calls' = Append(calls, DetPredict(text_prompts[k + 1], box_threshold,
                                         text_threshold, TRUE, 0))
    /\ k' = Len(text_prompts)
    /\ UNCHANGED << app, dl, loads, lang_sam, det_pc, det_result, det_calls, text_prompts,
                    box_threshold, text_threshold, all_masks, vector_file >>

\* One loop iteration whose predict raises: a warning is printed.
DetPredictFail ==
    /\ det_pc = "loop"
    /\ k < Len(text_prompts)
    /\ calls' = Append(calls, DetPredict(text_prompts[k + 1], box_threshold,
                                         text_threshold, TRUE, 0))
    /\ k' = k + 1
    /\ UNCHANGED << app, dl, loads, lang_sam, det_pc, det_result, det_calls, text_prompts,
                    box_threshold, text_threshold, all_masks, vector_file >>

\* After the loop, no mask was saved: output_path is returned.
ReturnWithoutVector ==
    /\ det_pc = "loop"
    /\ k = Len(text_prompts)
    /\ all_masks = << >>
    /\ det_result' = "returned"
    /\ det_pc' = "idle"
    /\ UNCHANGED << app, dl, calls, loads, lang_sam, det_calls, text_prompts, box_threshold,
                    text_threshold, all_masks, k, vector_file >>

\* Mutant of RasterToVector: the first retained mask is vectorized.
RasterToVector_FirstMask(written) ==
    /\ det_pc = "loop"
    /\ k = Len(text_prompts)
    /\ all_masks # << >>
    /\ calls' = Append(calls, RasterToVectorCall(all_masks[1], ~written))
    /\ vector_file' = IF written
                      THEN Some([ masks |-> { all_masks[1] } ])
                      ELSE vector_file
    /\ det_result' = IF written THEN "returned" ELSE "raised"
    /\ det_pc' = "idle"
    /\ UNCHANGED << app, dl, loads, lang_sam, det_calls, text_prompts, box_threshold,
                    text_threshold, all_masks, k >>

\* After the loop: raster_to_vector(all_masks[-1], output_path).  When it
\* raises nothing catches it.
RasterToVector(written) ==
    /\ det_pc = "loop"
    /\ k = Len(text_prompts)
    /\ all_masks # << >>
    /\ calls' = Append(calls, RasterToVectorCall(all_masks[Len(all_masks)], ~written))
    /\ vector_file' = IF written
                      THEN Some([ masks |-> { all_masks[Len(all_masks)] } ])
                      ELSE vector_file
    /\ det_result' = IF written THEN "returned" ELSE "raised"
    /\ det_pc' = "idle"
    /\ UNCHANGED << app, dl, loads, lang_sam, det_calls, text_prompts, box_threshold,
                    text_threshold, all_masks, k >>

\* One DebrisDetector used for up to MaxDetCalls detect_debris_with_text calls.
DetNext ==
    \/ \E arg \in TextPromptArgs, th \in ThresholdArgs : DetectDebrisWithText(arg, th[1], th[2])
    \/ InitializeModelOk
    \/ InitializeModelFail
    \/ \E n \in 0..MaxRegions, saved \in BOOLEAN : DetPredictOk(n, saved)
    \/ DetPredictFail
    \/ ReturnWithoutVector
    \/ \E written \in BOOLEAN : RasterToVector(written)

DetSpec == Init /\ [][DetNext]_vars

\* ------------------------------------------------- download_noaa_imagery

\* download_noaa_imagery calls explored on one detector.
MaxDownloads == 2

\* tms_sources: the tile service behind each known source name.
TmsSources ==
    [ milton |-> "tiles.arcgis.com/Milton_Imagery",
      helene |-> "tiles.arcgis.com/Helene_Imagery",
      esri |-> "server.arcgisonline.com/World_Imagery" ]

\* tms_url = tms_sources.get(source, tms_sources["esri"])
TmsUrl(source) ==
    IF source \in DOMAIN TmsSources THEN TmsSources[source] ELSE TmsSources["esri"]

\* The source arguments explored: the three known names and one that
\* tms_sources does not have.
SourceArgs == { "milton", "helene", "esri", "ian" }

\* The output_path arguments explored: None and a path of the caller's.
OutputPathArgs == { None, Some("custom.tif") }

\* if output_path is None: output_path = self.output_dir / f"noaa_{source}_imagery.tif"
OutputPath(out, source) ==
    IF IsNone(out) THEN << "output_dir", "noaa", source, "imagery.tif" >> ELSE << Get(out) >>

\* tms_to_geotiff(output=str(output_path), bbox=bbox, zoom=18, source=url, quiet=False)
TmsToGeotiffCall(out, url, raised) == [ output |-> out, source |-> url, raised |-> raised ]

\* The rasters on disk after tms_to_geotiff wrote path from url.
Written(files, path, url) ==
    { f \in files : f.path # path } \cup { [ path |-> path, url |-> url ] }

\* download_noaa_imagery(bbox, output_path=out, source=source) is entered:
\* lines 179-196, up to the try.
DownloadNoaaImagery(out, source) ==
    /\ dl_pc = "idle"
    /\ dl_calls < MaxDownloads
    /\ dl_calls' = dl_calls + 1
    /\ dl_source' = source
    /\ dl_output' = OutputPath(out, source)
    /\ dl_attempts' = << >>
    /\ dl_result' = "none"
    /\ dl_return' = None
    /\ dl_pc' = "first"
    /\ UNCHANGED << app, calls, loads, lang_sam, det_pc, det_result, det_calls,
                    text_prompts, box_threshold, text_threshold, all_masks, k,
                    vector_file, dl_files >>

\* The download inside the try returns: return output_path.
FirstDownloadOk ==
    /\ dl_pc = "first"
    /\ dl_attempts' = Append(dl_attempts, TmsToGeotiffCall(dl_output, TmsUrl(dl_source), FALSE))
    /\ dl_files' = Written(dl_files, dl_output, TmsUrl(dl_source))
    /\ dl_result' = "returned"
    /\ dl_return' = Some(dl_output)
    /\ dl_pc' = "idle"
    /\ UNCHANGED << app, calls, loads, lang_sam, det_pc, det_result, det_calls,
                    text_prompts, box_threshold, text_threshold, all_masks, k,
                    vector_file, dl_calls, dl_source, dl_output >>

\* The download inside the try raises: the except branch is entered.
FirstDownloadFail ==
    /\ dl_pc = "first"
    /\ dl_attempts' = Append(dl_attempts, TmsToGeotiffCall(dl_output, TmsUrl(dl_source), TRUE))
    /\ dl_pc' = "retry"
    /\ UNCHANGED << app, calls, loads, lang_sam, det_pc, det_result, det_calls,
                    text_prompts, box_threshold, text_threshold, all_masks, k,
                    vector_file, dl_calls, dl_source, dl_output, dl_result, dl_return,
                    dl_files >>

\* The download of the except branch, from tms_sources["esri"], returns:
\* return output_path.
RetryDownloadOk ==
    /\ dl_pc = "retry"
    /\ dl_attempts' = Append(dl_attempts, TmsToGeotiffCall(dl_output, TmsSources["esri"], FALSE))
    /\ dl_files' = Written(dl_files, dl_output, TmsSources["esri"])
    /\ dl_result' = "returned"
    /\ dl_return' = Some(dl_output)
    /\ dl_pc' = "idle"
    /\ UNCHANGED << app, calls, loads, lang_sam, det_pc, det_result, det_calls,
                    text_prompts, box_threshold, text_threshold, all_masks, k,
                    vector_file, dl_calls, dl_source, dl_output >>

\* Mutant of RetryDownloadFail: the fallback download is tried again.
RetryDownloadFail_TriesAgain ==
    /\ dl_pc = "retry"
    /\ dl_attempts' = Append(dl_attempts, TmsToGeotiffCall(dl_output, TmsSources["esri"], TRUE))
    /\ dl_pc' = IF Len(dl_attempts) < 2 THEN "retry" ELSE "idle"
    /\ dl_result' = IF Len(dl_attempts) < 2 THEN dl_result ELSE "raised"
    /\ UNCHANGED << app, calls, loads, lang_sam, det_pc, det_result, det_calls,
                    text_prompts, box_threshold, text_threshold, all_masks, k,
                    vector_file, dl_calls, dl_source, dl_output, dl_return, dl_files >>

\* The download of the except branch raises: nothing catches it, the call
\* ends with the exception.
RetryDownloadFail ==
    /\ dl_pc = "retry"
    /\ dl_attempts' = Append(dl_attempts, TmsToGeotiffCall(dl_output, TmsSources["esri"], TRUE))
    /\ dl_result' = "raised"
    /\ dl_pc' = "idle"
    /\ UNCHANGED << app, calls, loads, lang_sam, det_pc, det_result, det_calls,
                    text_prompts, box_threshold, text_threshold, all_masks, k,
                    vector_file, dl_calls, dl_source, dl_output, dl_return, dl_files >>

\* One DebrisDetector used for up to MaxDownloads download_noaa_imagery calls.
DownloadNext ==
    \/ \E out \in OutputPathArgs, source \in SourceArgs : DownloadNoaaImagery(out, source)
    \/ FirstDownloadOk
    \/ FirstDownloadFail
    \/ RetryDownloadOk
    \/ RetryDownloadFail

DownloadSpec == Init /\ [][DownloadNext]_vars

\* ------------------------------------------------------------------ claims

\* The run has gone through the final annotation and published its results.
Finished == pc = "idle" /\ progress # << >> /\ progress[Len(progress)] = 100

\* The predict calls of the run, in order.
PredictCalls == SelectSeq(calls, LAMBDA c : c.op = "predict")

\* The count of a category in a results dict, a missing entry counting 0.
CategoryCount(d, c) == IF DictHas(d, c) THEN DictAt(d, c) ELSE 0

RECURSIVE SumOverCategories(_, _)
SumOverCategories(d, S) ==
    IF S = {} THEN 0
    ELSE LET c == CHOOSE x \in S : TRUE
         IN  CategoryCount(d, c) + SumOverCategories(d, S \ {c})

\* The regions the capability returned over the whole run.
RECURSIVE SumReturned(_)
SumReturned(log) ==
    IF log = << >> THEN 0
    ELSE (IF log[1].op = "predict" /\ ~log[1].raised THEN log[1].n ELSE 0)
         + SumReturned(Tail(log))

\* The number of regions predict returned for prompt p in this run (0 when
\* the call raised or was not made).
Returned(p) ==
    LET idx == { j \in 1..Len(calls) :
                   calls[j].op = "predict" /\ calls[j].text_prompt = p /\ ~calls[j].raised }
    IN  IF idx = {} THEN 0 ELSE calls[CHOOSE j \in idx : TRUE].n

Raised(p) ==
    \E j \in 1..Len(calls) :
        calls[j].op = "predict" /\ calls[j].text_prompt = p /\ calls[j].raised

\* C1: whenever the results section reports a total, it is the sum over all
\* categories of the published counts (a category without an entry counting
\* 0), which is also the number of regions the capability returned in the
\* run; a finished run that reports no total published an empty mapping.
C1_TotalIsSumOfCategoryCounts ==
    /\ ~IsNone(total_detections) =>
          /\ ~IsNone(ss_results)
          /\ Get(total_detections) = SumOverCategories(Get(ss_results), Categories)
          /\ Finished => Get(total_detections) = SumReturned(calls)
    /\ (Finished /\ IsNone(total_detections)) => Get(ss_results) = EmptyDict

C1_Witness ==
    /\ Finished
    /\ total_detections = Some(2)
    /\ Len(Get(ss_results)) = 3
    /\ \E j \in 1..Len(calls) : calls[j].op = "predict" /\ calls[j].raised

\* C2: a run in which predict raised still made one predict call per prompt
\* of the list, in list order, and finished with a published report in which
\* every prompt that raised has an entry with count 0; while the loop runs
\* every processed prompt has made exactly one predict call.
C2_FailuresAreAbsorbed ==
    /\ pc = "detect" => Len(PredictCalls) = i
    /\ Finished =>
          /\ detection_complete
          /\ Len(PredictCalls) = Len(prompts_to_run)
          /\ \A j \in 1..Len(prompts_to_run) :
                /\ PredictCalls[j].text_prompt = prompts_to_run[j].prompt
                /\ PredictCalls[j].raised =>
                      /\ DictHas(Get(ss_results), prompts_to_run[j].display_name)
                      /\ DictAt(Get(ss_results), prompts_to_run[j].display_name) = 0

C2_Witness ==
    /\ Finished
    /\ Len(prompts_to_run) = 6
    /\ PredictCalls[1].raised
    /\ PredictCalls[3].raised
    /\ ~PredictCalls[6].raised /\ PredictCalls[6].n = 1

\* The regions found by all the prompts of the run.
AllRegionsFound ==
    UNION { Regions(calls[j].text_prompt, calls[j].n) :
              j \in { m \in 1..Len(calls) : calls[m].op = "predict" /\ ~calls[m].raised } }

\* The final show_anns of this run wrote the combined raster.
FinalWritten ==
    /\ Finished
    /\ ~calls[Len(calls)].raised
    /\ ~IsNone(final_file)
    /\ Get(final_file).run = runs

\* The last predict of the run returned at least one region.
LastPredictFound ==
    /\ PredictCalls # << >>
    /\ ~PredictCalls[Len(PredictCalls)].raised
    /\ PredictCalls[Len(PredictCalls)].n > 0

\* C3: in a finished run whose last prompt found regions and whose final
\* show_anns wrote the combined raster, the raster shows the union of the
\* regions found by all prompts of the run.
C3_FinalRasterIsUnion ==
    (FinalWritten /\ LastPredictFound) => Get(final_file).regions = AllRegionsFound

published == << detection_complete, ss_results, ss_result_images, final_result, final_file >>

\* C6: while the run has no loaded model (LangSAM() not reached or raised)
\* the loop is not entered and no capability call is made, and no step taken
\* without a loaded model changes what is published: detection_complete, if
\* false, stays false.
C6_LoadFailureAbortsRun ==
    /\ [](IsNone(sam) => (pc # "detect" /\ calls = << >>))
    /\ [][IsNone(sam) /\ IsNone(sam') => UNCHANGED published]_vars

\* The model load of the first run of a session raised.
C6_Witness ==
    /\ pc = "idle"
    /\ runs = 1
    /\ loads = 0
    /\ IsNone(sam)
    /\ progress = << 0, 30 >>
    /\ calls = << >>
    /\ ~detection_complete
    /\ IsNone(ss_results)

\* C7: LangSAM() is constructed at most once in a session, however many runs
\* it has.
C7_ModelLoadedAtMostOnce == loads <= 1

\* C8: a finished run with no checkbox selected made no call on the
\* capability (no predict, no show_anns) and published an empty mapping.
C8_EmptySelectionMakesNoCall ==
    (Finished /\ toggles = AllOff) =>
        /\ calls = << >>
        /\ Get(ss_results) = EmptyDict

\* C10: every predict call of a run, from the first prompt to the last, is
\* made with box_threshold and text_threshold both equal to the slider value
\* the run was started with.
C10_ThresholdsPassedVerbatim ==
    \A j \in 1..Len(calls) :
        calls[j].op = "predict" =>
            /\ calls[j].box_threshold = detection_sensitivity
            /\ calls[j].text_threshold = detection_sensitivity

C10_Witness ==
    /\ Finished
    /\ detection_sensitivity = SliderMax
    /\ Len(PredictCalls) = 6
    /\ PredictCalls[1].box_threshold = SliderMax
    /\ PredictCalls[6].text_threshold = SliderMax

\* C9: no predict call is made with a box or text threshold outside (0, 1]
\* (1..100 in hundredths): a call of detect_debris_with_text with such a
\* threshold is rejected before any prompt is invoked.
C9_OutOfRangeThresholdRejected ==
    \A j \in 1..Len(calls) :
        calls[j].op = "predict" =>
            /\ calls[j].box_threshold \in 1..100
            /\ calls[j].text_threshold \in 1..100

\* The report a run publishes when nothing but the predict outcomes counts:
\* one entry per prompt of the list, in list order, holding the number of
\* regions that prompt's predict returned (0 when it raised).
ExpectedCounts ==
    [ j \in 1..Len(prompts_to_run) |->
        [ k |-> prompts_to_run[j].display_name, v |-> Returned(prompts_to_run[j].prompt) ] ]

\* The last capability call of the run is the final show_anns and it raised.
FinalAnnotationFailed ==
    /\ calls # << >>
    /\ calls[Len(calls)].op = "show_anns"
    /\ calls[Len(calls)].output = "final"
    /\ calls[Len(calls)].raised

\* C11: when the final show_anns of a run raised, the run has nevertheless
\* gone through to the end (progress 100, detection_complete set) and the
\* counts it published are those determined by the predict outcomes alone,
\* the same as after a final show_anns that succeeded.
C11_CountsSurviveAnnotationFailure ==
    /\ FinalAnnotationFailed =>
          /\ Finished
          /\ detection_complete
          /\ ss_results = Some(ExpectedCounts)
    /\ (Finished /\ ~FinalAnnotationFailed) => ss_results = Some(ExpectedCounts)

C11_Witness ==
    /\ FinalAnnotationFailed
    /\ Len(prompts_to_run) = 3
    /\ Returned(prompts_to_run[1].prompt) = 1
    /\ Returned(prompts_to_run[3].prompt) = 1
    /\ total_detections = Some(2)
    /\ ~final_result

\* The annotated image the results section shows and offers for download:
\* drawn only when the section itself is (detection_complete and a non-empty
\* results dict), 'final_result' is in the session state and the file
\* exists.  None when no image is shown.
DisplayedFinal ==
    IF /\ detection_complete
       /\ ~IsNone(ss_results) /\ Get(ss_results) # EmptyDict
       /\ final_result
       /\ ~IsNone(final_file)
    THEN final_file
    ELSE None

\* C12: after a run whose final show_anns raised, the annotated image the
\* results section shows (if it shows one at all) is never the detections
\* drawn by an earlier run of the session.
C12_NoStaleAnnotation ==
    (Finished /\ FinalAnnotationFailed /\ ~IsNone(DisplayedFinal)) =>
        ~(Get(DisplayedFinal).run < runs /\ Get(DisplayedFinal).regions # {})

\* What the published report says of category c: its count (None without an
\* entry) and whether it has a per-prompt image.
ReportEntry(c) ==
    [ count |-> IF DictHas(Get(ss_results), c) THEN Some(DictAt(Get(ss_results), c)) ELSE None,
      image |-> DictHas(Get(ss_result_images), c) ]

\* What the report says of a category whose predict returned without any
\* region: the count of an empty box list, no image.
ZeroMatchEntry ==
    [ count |-> Some(Count([ boxes |-> Some({}) ])), image |-> FALSE ]

\* C13: in the report of a finished run, the entry of a prompt whose predict
\* raised differs from the entry of a prompt that ran and matched nothing.
C13_FailureDistinctFromZero ==
    Finished =>
        \A j \in 1..Len(prompts_to_run) :
            PredictCalls[j].raised => ReportEntry(prompts_to_run[j].display_name) # ZeroMatchEntry

\* The call was made with the default thresholds.
DefaultThresholds ==
    box_threshold = DefaultThreshold /\ text_threshold = DefaultThreshold

\* C14: a detect_debris_with_text call (with the default thresholds) ends
\* with an exception only when the model initialization failed (no model,
\* no capability call made): an error of predict, save_masks or
\* raster_to_vector is never raised to the caller.
C14_OnlyInitFailurePropagates ==
    (DefaultThresholds /\ det_result = "raised") => (IsNone(lang_sam) /\ calls = << >>)

\* The number of regions predict returned for prompt p in this
\* detect_debris_with_text call, which is the foreground of p's mask.
DetReturned(p) ==
    LET idx == { j \in 1..Len(calls) :
                   calls[j].op = "predict" /\ calls[j].text_prompt = p /\ ~calls[j].raised }
    IN  IF idx = {} THEN 0 ELSE calls[CHOOSE j \in idx : TRUE].n

\* The call ended in raster_to_vector raising on a mask without foreground.
VectorizationOfEmptyMaskFailed ==
    /\ DefaultThresholds
    /\ det_pc = "idle"
    /\ calls # << >>
    /\ calls[Len(calls)].op = "raster_to_vector"
    /\ calls[Len(calls)].raised
    /\ DetReturned(calls[Len(calls)].output) = 0

\* C15: when raster_to_vector raises on a mask without foreground pixels,
\* detect_debris_with_text returns normally, having written no vector file
\* (zero detections).
C15_EmptyMaskIsZeroDetections ==
    VectorizationOfEmptyMaskFailed => (det_result = "returned" /\ IsNone(vector_file))

\* C16: the predict calls of a run are made one at a time in the order of
\* the prompt list: the log of predict calls, each entry a call that has
\* returned or raised, is at every moment the calls for a prefix of the
\* list, and a step of the loop extends it by exactly one call, the one for
\* the next prompt of the list.
C16_PromptsInvokedInListOrder ==
    /\ [](/\ Len(PredictCalls) <= Len(prompts_to_run)
          /\ \A j \in 1..Len(PredictCalls) :
                PredictCalls[j].text_prompt = prompts_to_run[j].prompt)
    /\ [][(pc = "detect" /\ pc' = "detect") =>
             /\ Len(PredictCalls') = Len(PredictCalls) + 1
             /\ SubSeq(PredictCalls', 1, Len(PredictCalls)) = PredictCalls
             /\ PredictCalls'[Len(PredictCalls')].text_prompt
                   = prompts_to_run[Len(PredictCalls) + 1].prompt]_vars

C16_Witness ==
    /\ pc = "detect"
    /\ toggles = AllOn
    /\ Len(PredictCalls) = 4
    /\ PredictCalls[2].raised
    /\ PredictCalls[3].text_prompt = "rubble"
    /\ PredictCalls[4].text_prompt = "construction debris"

\* The registration the handler hard-codes: the toggles in the order of their
\* if statements, each with its fixed list of (prompt, display name) pairs.
Registration ==
    << [ toggle |-> "detect_debris",
         pairs |-> << Pair("pile of debris", "Debris Piles"), Pair("trash pile", "Trash Piles") >> ],
       [ toggle |-> "detect_rubble",
         pairs |-> << Pair("rubble", "Rubble"),
                      Pair("construction debris", "Construction Debris") >> ],
       [ toggle |-> "detect_tarps", pairs |-> << Pair("blue tarp", "Blue Tarps") >> ],
       [ toggle |-> "detect_vehicles",
         pairs |-> << Pair("damaged vehicle", "Damaged Vehicles") >> ] >>

\* The concatenation, in registration order, of the lists of the toggles
\* selected in t, from registration entry j on.
RECURSIVE Expanded(_, _)
Expanded(t, j) ==
    IF j > Len(Registration) THEN << >>
    ELSE (IF t[Registration[j].toggle] THEN Registration[j].pairs ELSE << >>)
         \o Expanded(t, j + 1)

\* The prompts of the toggles not selected in t.
UnselectedPrompts(t) ==
    UNION { { Registration[j].pairs[m].prompt : m \in 1..Len(Registration[j].pairs) } :
              j \in { r \in 1..Len(Registration) : ~t[Registration[r].toggle] } }

\* C17: from the moment the handler has built it, the prompt list of a run
\* is the concatenation, in registration order (debris piles, rubble, blue
\* tarps, vehicles), of the fixed lists of the selected toggles, whatever the
\* slider position and the outcomes of the capability calls; no prompt of an
\* unselected toggle is in the list or is ever handed to predict.
C17_PromptListIsExpansionOfToggles ==
    /\ (pc = "detect" \/ Finished) => prompts_to_run = Expanded(toggles, 1)
    /\ \A j \in 1..Len(PredictCalls) :
          /\ PredictCalls[j].text_prompt = Expanded(toggles, 1)[j].prompt
          /\ PredictCalls[j].text_prompt \notin UnselectedPrompts(toggles)

C17_Witness ==
    /\ Finished
    /\ toggles = [ detect_debris |-> TRUE, detect_rubble |-> FALSE,
                   detect_tarps |-> TRUE, detect_vehicles |-> TRUE ]
    /\ detection_sensitivity = SliderMax
    /\ Len(prompts_to_run) = 4
    /\ PredictCalls[3].text_prompt = "blue tarp"
    /\ PredictCalls[4].text_prompt = "damaged vehicle"

\* C18: when the same request (image, checkboxes, slider) is run again in a
\* session against the deterministic stub, the run publishes the counts the
\* previous run published, entry for entry, whatever images, session keys and
\* files the previous run left behind.
C18_RerunReproducesCounts ==
    [][(pc = "detect" /\ pc' = "idle" /\ ~IsNone(ss_results)) =>
          /\ ~IsNone(ss_results')
          /\ ss_results' = ss_results]_vars

\* A second run whose final show_anns raised while the image of the first
\* run is still on disk, and whose per-prompt images differ from the first's.
C18_Witness ==
    /\ Finished
    /\ runs = 2
    /\ toggles = AllOn
    /\ FinalAnnotationFailed
    /\ final_result /\ Get(final_file).run = 1
    /\ Get(ss_result_images) = EmptyDict
    /\ detection_sensitivity = SliderDefault
    /\ total_detections = Some(8)

\* The mask of prompt p is in all_masks.
MaskRetained(p) == \E m \in 1..Len(all_masks) : all_masks[m] = p

\* A capability call made for prompt p (its predict or its save_masks) raised.
DetRaisedFor(p) ==
    \E j \in 1..Len(calls) :
        /\ calls[j].raised
        /\ \/ calls[j].op = "predict" /\ calls[j].text_prompt = p
           \/ calls[j].op = "save_masks" /\ calls[j].output = p

\* C19: in a detect_debris_with_text call (with the default thresholds), the
\* mask of a processed prompt none of whose capability calls raised is
\* retained in all_masks exactly when predict found at least one region for
\* the prompt: none is retained for a prompt that matched nothing.
C19_MaskRetainedIffRegionsFound ==
    DefaultThresholds =>
        \A j \in 1..k :
            ~DetRaisedFor(text_prompts[j]) =>
                (MaskRetained(text_prompts[j]) <=> DetReturned(text_prompts[j]) > 0)

\* C20: against the stub, whose match count is non-increasing in the
\* threshold, a run never publishes for any category a count greater than
\* the one the previous run of the same checkboxes published at a lower (or
\* the same) slider position; the positions are 0.20 and the two slider
\* positions around 0.35, 0.34 and 0.36.
C20_LowerThresholdFindsAtLeastAsMany ==
    /\ [](ComparedSensitivities \subseteq SliderValues)
    /\ [][(pc = "detect" /\ pc' = "idle" /\ ~IsNone(ss_results)) =>
             \A c \in Categories :
                 CategoryCount(Get(ss_results), c) >= CategoryCount(Get(ss_results'), c)]_vars

\* The second run, at 0.36, is about to publish one blue tarp and one
\* construction debris region where the first run, at 0.20, published three
\* of each.
C20_Witness ==
    /\ pc = "detect"
    /\ i = Len(prompts_to_run)
    /\ runs = 2
    /\ toggles = AllOn
    /\ detection_sensitivity = SliderDefault + 8 * SliderStep
    /\ ~IsNone(ss_results)
    /\ CategoryCount(Get(ss_results), "Blue Tarps") = 3
    /\ CategoryCount(Get(ss_results), "Construction Debris") = 3
    /\ CategoryCount(results, "Blue Tarps") = 1
    /\ CategoryCount(results, "Construction Debris") = 1

\* The masks the call retained, as a set.
RetainedMasks == { all_masks[m] : m \in 1..Len(all_masks) }

\* C22: when a detect_debris_with_text call (with the default thresholds)
\* has written the vector file and every retained mask has foreground, the
\* file holds the detections of every prompt whose predict and save_masks
\* succeeded in the call.
C22_VectorFileCombinesAllPrompts ==
    (/\ DefaultThresholds
     /\ det_result = "returned"
     /\ ~IsNone(vector_file)
     /\ \A p \in RetainedMasks : DetReturned(p) > 0) =>
        Get(vector_file).masks = RetainedMasks

\* The report in the session state.
Report == << detection_complete, ss_results, ss_result_images >>

\* C23: a step changes results, result_images or detection_complete in the
\* session state only when it ends a run all of whose prompts have been
\* processed, after the final show_anns has been attempted, and it then
\* stores the run's complete results; no step of a run in progress changes
\* them.
C23_ReportPublishedOnlyWhenFinished ==
    [][Report' # Report =>
          /\ pc = "detect" /\ pc' = "idle"
          /\ i = Len(prompts_to_run)
          /\ Len(PredictCalls) = Len(prompts_to_run)
          /\ calls'[Len(calls')].op = "show_anns"
          /\ calls'[Len(calls')].output = "final"
          /\ Len(results) = Len(prompts_to_run)
          /\ Report' = << TRUE, Some(results), Some(result_images) >>]_vars

\* The second run of a session has processed one of its two prompts; the
\* session state still holds the report of the first run.
C23_Witness ==
    /\ runs = 2
    /\ pc = "detect"
    /\ i = 1
    /\ Len(prompts_to_run) = 2
    /\ results = << [ k |-> "Blue Tarps", v |-> 1 ] >>
    /\ ss_results = Some(<< [ k |-> "Damaged Vehicles", v |-> 0 ] >>)
    /\ detection_complete

\* The predict calls of the detect_debris_with_text call, in order.
DetPredictCalls == SelectSeq(calls, LAMBDA c : c.op = "predict")

\* The detect_debris_with_text call has gone through its loop and ended.
DetLoopEnded ==
    /\ det_pc = "idle"
    /\ det_result \in { "returned", "raised" }
    /\ ~IsNone(lang_sam)
    /\ ~(det_result = "raised" /\ calls = << >>)

\* C24: a detect_debris_with_text call over n prompts makes exactly n predict
\* calls, one per prompt in list order, whatever mix of predicts and
\* save_masks raises: in the loop every step processes the next prompt with
\* one more predict call (no retry, no skip), and the loop ends only after
\* the n-th.
C24_ExactlyOnePredictPerPrompt ==
    /\ [](det_pc = "loop" =>
             /\ Len(DetPredictCalls) = k
             /\ k <= Len(text_prompts))
    /\ [](DetLoopEnded =>
             /\ Len(DetPredictCalls) = Len(text_prompts)
             /\ \A j \in 1..Len(text_prompts) :
                   DetPredictCalls[j].text_prompt = text_prompts[j])
    /\ [][(det_pc = "loop" /\ det_pc' = "loop") =>
             /\ k' = k + 1
             /\ Len(DetPredictCalls') = Len(DetPredictCalls) + 1]_vars
    /\ [][(det_pc = "loop" /\ det_pc' = "idle") => k = Len(text_prompts)]_vars

C24_Witness ==
    /\ DetLoopEnded
    /\ text_prompts = MainTextPrompts
    /\ Len(DetPredictCalls) = 5
    /\ DetPredictCalls[1].raised
    /\ ~DetPredictCalls[2].raised
    /\ DetPredictCalls[3].raised
    /\ DetPredictCalls[5].raised
    /\ all_masks = << >>
    /\ det_result = "returned"

\* C25: whenever the CSV report is offered it has exactly one row per
\* category of the published results, in their order, carrying the
\* category's count and a priority that depends on the count alone: High
\* when the count is above 5, Medium from 3 to 5, Low up to 2.
C25_PriorityTierFollowsCount ==
    ~IsNone(CsvReport) =>
        LET rows == Get(CsvReport)
            res == Get(ss_results)
        IN  /\ Len(rows) = Len(res)
            /\ \A c \in DictKeys(res) :
                  Cardinality({ j \in 1..Len(rows) : rows[j].Category = c }) = 1
            /\ \A j \in 1..Len(rows) :
                  /\ rows[j].Category = res[j].k
                  /\ rows[j].Count = res[j].v
                  /\ rows[j].Count > 5 => rows[j].Priority = "High"
                  /\ (rows[j].Count >= 3 /\ rows[j].Count <= 5) => rows[j].Priority = "Medium"
                  /\ rows[j].Count <= 2 => rows[j].Priority = "Low"

C25_Witness ==
    /\ Finished
    /\ ~IsNone(CsvReport)
    /\ Get(CsvReport) = << [ Category |-> "Blue Tarps", Count |-> 5, Priority |-> "Medium" ],
                           [ Category |-> "Damaged Vehicles", Count |-> 6, Priority |-> "High" ] >>

\* The display name under which the app files prompt p.
DisplayNameOf(p) ==
    LET all == PromptsToRun(AllOn)
    IN  all[CHOOSE j \in 1..Len(all) : all[j].prompt = p].display_name

\* Every category with an image in the pair (res, imgs) has a positive count.
ImagesHavePositiveCounts(res, imgs) ==
    \A c \in DictKeys(imgs) : DictHas(res, c) /\ DictAt(res, c) > 0

\* The per-prompt show_anns calls of the run that raised, as positions of
\* the call log (each follows its predict call).
FailedRenderings ==
    { j \in 2..Len(calls) :
        calls[j].op = "show_anns" /\ calls[j].output # "final" /\ calls[j].raised }

\* C26: every category that has an image also has a count above 0, in the
\* run's own dicts and in the published session state; and a per-prompt
\* show_anns that raised kept the count predict returned for that prompt and
\* left the category without an image.
C26_ImageOnlyWithPositiveCount ==
    /\ ImagesHavePositiveCounts(results, result_images)
    /\ ~IsNone(ss_result_images) =>
          /\ ~IsNone(ss_results)
          /\ ImagesHavePositiveCounts(Get(ss_results), Get(ss_result_images))
    /\ \A j \in FailedRenderings :
          LET c == DisplayNameOf(calls[j].output)
          IN  /\ calls[j - 1].op = "predict"
              /\ calls[j - 1].text_prompt = calls[j].output
              /\ calls[j - 1].n > 0
              /\ DictHas(results, c)
              /\ DictAt(results, c) = calls[j - 1].n
              /\ ~DictHas(result_images, c)
              /\ Finished => /\ DictAt(Get(ss_results), c) = calls[j - 1].n
                             /\ ~DictHas(Get(ss_result_images), c)

\* A finished run in which the rendering for "rubble" raised after predict
\* found three regions, while "construction debris" got its image.
C26_Witness ==
    /\ Finished
    /\ Get(ss_results) = << [ k |-> "Rubble", v |-> 3 ], [ k |-> "Construction Debris", v |-> 2 ] >>
    /\ DictKeys(Get(ss_result_images)) = { "Construction Debris" }
    /\ FailedRenderings # {}

\* The step is a click on START that the page accepted.
StartAccepted == pc = "idle" /\ pc' # "idle"

\* The step is a demo download that raised: the download was under way and
\* the session still has no image after it.
DownloadFailed == pc = "download" /\ uploaded_image' = "None"

\* C27: no predict call is made without an image: every predict call of the
\* log names one, and the model load and the loop are only reached with an
\* image in the session.  START is accepted only with an uploaded image or
\* in demo mode; the demo download runs only in demo mode with no image; and
\* a download that raised ends the run before the model load, with no
\* capability call.
C27_PredictNeedsImage ==
    /\ [](\A j \in 1..Len(calls) : calls[j].op = "predict" => calls[j].image # "None")
    /\ [](pc \in { "load", "detect" } => uploaded_image # "None")
    /\ [](pc = "download" => demo_mode /\ uploaded_image = "None")
    /\ [][StartAccepted =>
            /\ uploaded_image # "None" \/ demo_mode
            /\ pc' = "download" <=> (demo_mode /\ uploaded_image = "None")]_vars
    /\ [][DownloadFailed =>
            /\ pc' = "idle"
            /\ progress' = << 0, 10 >>
            /\ loads' = loads
            /\ sam' = sam
            /\ calls' = << >>
            /\ UNCHANGED published]_vars

\* A run in demo mode whose download raised.
C27_Witness ==
    /\ pc = "idle"
    /\ runs = 1
    /\ demo_mode
    /\ uploaded_image = "None"
    /\ progress = << 0, 10 >>
    /\ loads = 0
    /\ calls = << >>

\* The value the progress bar shows: the last one it was given.
Shown == progress[Len(progress)]

\* C28: the values given to the progress bar in a run never decrease and lie
\* in 0..100.  Inside the loop over n prompts the bar stood at 50 when the
\* loop began and shows 50 + floor(45 * j / n) after the j-th prompt, 95
\* after the last; the step that ends the run sets it to 100; with n = 0 the
\* bar goes from 50 straight to 100.
C28_ProgressMonotoneAndBounded ==
    /\ [](\A j \in 1..Len(progress) :
             /\ progress[j] \in 0..100
             /\ j < Len(progress) => progress[j] <= progress[j + 1])
    /\ [](pc = "detect" =>
             LET n == Len(prompts_to_run)
                 base == Len(progress) - i
             IN  /\ base >= 1
                 /\ progress[base] = 50
                 /\ \A j \in 1..i : progress[base + j] = 50 + ((45 * j) \div n)
                 /\ (n > 0 /\ i = n) => Shown = 95)
    /\ [][(pc = "load" /\ pc' = "detect") => Shown' = 50]_vars
    /\ [][(pc = "detect" /\ pc' = "idle") =>
             /\ Shown = (IF Len(prompts_to_run) = 0 THEN 50 ELSE 95)
             /\ progress' = Append(progress, 100)]_vars

\* A demo run over all six prompts after its fourth prompt.
C28_Witness ==
    /\ pc = "detect"
    /\ Len(prompts_to_run) = 6
    /\ i = 4
    /\ progress = << 0, 10, 25, 30, 50, 57, 65, 72, 80 >>

\* The positions in text_prompts of the prompts whose predict and save_masks
\* both returned in this call, read off the call log.
SucceededPrompts ==
    { j \in 1..Len(text_prompts) :
        \E c \in 1..(Len(calls) - 1) :
            /\ calls[c].op = "predict" /\ calls[c].text_prompt = text_prompts[j]
            /\ ~calls[c].raised
            /\ calls[c + 1].op = "save_masks" /\ calls[c + 1].output = text_prompts[j]
            /\ ~calls[c + 1].raised }

\* The raster_to_vector calls of this detect_debris_with_text call.
VectorizeCalls == SelectSeq(calls, LAMBDA c : c.op = "raster_to_vector")

\* C29: when a detect_debris_with_text call has returned, it made at most
\* one raster_to_vector call.  If no prompt's predict and save_masks both
\* succeeded it made none and wrote no vector file; otherwise the one call
\* was on the mask of the last such prompt in list order.
C29_VectorizesLastSuccessfulMask ==
    (det_pc = "idle" /\ det_result = "returned") =>
        /\ Len(VectorizeCalls) <= 1
        /\ SucceededPrompts = {} => (VectorizeCalls = << >> /\ IsNone(vector_file))
        /\ SucceededPrompts # {} =>
              LET last == CHOOSE j \in SucceededPrompts : \A m \in SucceededPrompts : m <= j
              IN  /\ Len(VectorizeCalls) = 1
                  /\ VectorizeCalls[1].output = text_prompts[last]
                  /\ ~VectorizeCalls[1].raised
                  /\ calls[Len(calls)] = VectorizeCalls[1]

\* Of main()'s five prompts the second and the fourth succeeded, the fifth
\* raised; the call returned after vectorizing the fourth prompt's mask.
C29_Witness ==
    /\ det_pc = "idle"
    /\ det_result = "returned"
    /\ text_prompts = MainTextPrompts
    /\ SucceededPrompts = { 2, 4 }
    /\ VectorizeCalls # << >>
    /\ VectorizeCalls[1].output = "rubble"

\* The ESRI World Imagery tile service, the fallback of download_noaa_imagery.
EsriUrl == "server.arcgisonline.com/World_Imagery"

\* The tile service the claim assigns to a source argument.
RequestedUrl(source) ==
    CASE source = "milton" -> "tiles.arcgis.com/Milton_Imagery"
      [] source = "helene" -> "tiles.arcgis.com/Helene_Imagery"
      [] OTHER -> EsriUrl

\* C30: a download_noaa_imagery call makes at most two tms_to_geotiff calls,
\* all to its output path: the first from the requested source's service
\* (the ESRI service for an unknown source), a second only after the first
\* raised, and from the ESRI service.  The call ends with an exception only
\* when both raised; it returns as soon as one succeeded, and then returns
\* the output path.
C30_AtMostOneEsriRetry ==
    /\ Len(dl_attempts) <= 2
    /\ \A j \in 1..Len(dl_attempts) : dl_attempts[j].output = dl_output
    /\ Len(dl_attempts) >= 1 => dl_attempts[1].source = RequestedUrl(dl_source)
    /\ Len(dl_attempts) = 2 => (dl_attempts[1].raised /\ dl_attempts[2].source = EsriUrl)
    /\ (dl_pc = "idle" /\ dl_result = "raised") =>
          /\ Len(dl_attempts) = 2
          /\ dl_attempts[1].raised /\ dl_attempts[2].raised
          /\ IsNone(dl_return)
    /\ (dl_pc = "idle" /\ dl_result = "returned") =>
          /\ ~dl_attempts[Len(dl_attempts)].raised
          /\ dl_return = Some(dl_output)
    /\ (dl_pc # "idle" /\ dl_attempts # << >>) => dl_attempts[Len(dl_attempts)].raised
    /\ dl_calls > 0 /\ dl_pc = "idle" => dl_result \in { "returned", "raised" }

\* A call for the Milton imagery whose first download raised and whose retry
\* from the ESRI service succeeded.
C30_Witness ==
    /\ dl_pc = "idle"
    /\ dl_source = "milton"
    /\ dl_result = "returned"
    /\ Len(dl_attempts) = 2
    /\ dl_attempts[2].source = EsriUrl
    /\ [ path |-> dl_output, url |-> EsriUrl ] \in dl_files

====
